---------------------------- MODULE Spec2Model ----------------------------
(***************************************************************************)
(* Model of the two batch programs of the tracing code:                    *)
(*                                                                         *)
(*   generate_objids.py     walks the snapshots of a merger tree in time   *)
(*                          order, hands out persistent ObjIDs and writes  *)
(*                          the per-snapshot ObjID tables and the          *)
(*                          auxiliary linkage data;                        *)
(*   generate_mergelist.py  reads those tables back and advances the       *)
(*                          carrier list one snapshot at a time.           *)
(*                                                                         *)
(* Arrays are functions over 0..n-1, as in numpy.  A call of set_trace()   *)
(* and an uncaught Python exception both end the run; the variable fatal   *)
(* records which one it was.                                               *)
(***************************************************************************)
EXTENDS Integers, FiniteSets, Sequences, TLC

\* ------------------------------------------------------------- bounds

\* Number of snapshots of the run (num_snaps, 79 in the source).
NumSnaps == 4

\* Largest number of freely linked haloes in one snapshot.
MaxHaloes == 2

\* Largest number of freely linked haloes in the whole tree.
MaxNodes == 5

\* Snapshot 0 may hold this many extra haloes that have no descendant, so
\* that runs with ten or more ObjIDs are covered as well as runs with fewer.
PadSize == 8

\* ---------------------------------------------------------- constants

\* Placeholder for a carrier (or ObjID, or VR index) that is not set.
UNSET == -1

\* Carrier of a galaxy that has faded.
FADED == -10

\* obj_status of an ObjID whose halo survives to the next snapshot.
SIMPLE == 1

\* First skip count handled by the loop over skipping haloes.
FirstSkip == 2

Snaps == 0 .. (NumSnaps - 1)

\* ------------------------------------------------------ numpy helpers

EmptyArr == [i \in {} |-> 0]

Size(a) == Cardinality(DOMAIN a)

\* a[i] with numpy's negative indices counting from the end.
Idx(a, i) == a[IF i < 0 THEN i + Size(a) ELSE i]

\* Whether numpy accepts index i for an array of length n.
IndexOK(n, i) == (-n <= i) /\ (i < n)

\* np.zeros(n) - 1
Unset(n) == [i \in 0 .. (n - 1) |-> UNSET]

\* np.nonzero(...)[0] of a set of indices: the indices in ascending order.
Ascending(S) ==
    [k \in 0 .. (Cardinality(S) - 1) |->
        CHOOSE x \in S : Cardinality({y \in S : y < x}) = k]

SetMax(S) == CHOOSE x \in S : \A y \in S : y <= x

SetMin(S) == CHOOSE x \in S : \A y \in S : x <= y

\* The elements of an array.
Range(a) == {a[i] : i \in DOMAIN a}

\* A list entry that is None, and one that holds array a.
None == [none |-> TRUE, v |-> EmptyArr]

Some(a) == [none |-> FALSE, v |-> a]

\* ------------------------------------------------------ the input tree
\*
\* The run reads the merger tree file: the arrays mt.vrid, mt.isnap,
\* mt.descid and mt.topid over the tree entries, and per snapshot the list
\* soap[s] of the tree entries of its haloes.  The trees of the model are
\* built from a shape: the number of haloes of each snapshot and, for each
\* halo, its descendant (a halo of a later snapshot, or none) and whether
\* its tree entry lies on the main branch of that descendant.  Entries of
\* main-branch haloes (and of haloes without descendant) are laid out first,
\* all others after them, and every TopLeafID names the last main-branch
\* entry, so that every mix of main progenitors and merging haloes occurs,
\* duplicate targets included.

\* Haloes of snapshot s, the extra haloes of snapshot 0 last.
NumHaloes(sizes, pad, s) == sizes[s] + (IF s = 0 THEN pad ELSE 0)

RECURSIVE Offset(_, _, _)
\* Number of haloes in the snapshots before s.
Offset(sizes, pad, s) ==
    IF s = 0 THEN 0
    ELSE Offset(sizes, pad, s - 1) + NumHaloes(sizes, pad, s - 1)

\* The haloes of a shape, numbered from 1 snapshot by snapshot, each with
\* its snapshot, its VR index and whether it may have a descendant.
HaloList(sizes, pad) ==
    [c \in 1 .. Offset(sizes, pad, NumSnaps) |->
        LET s == CHOOSE u \in Snaps :
                    /\ Offset(sizes, pad, u) < c
                    /\ c <= Offset(sizes, pad, u + 1)
            i == c - Offset(sizes, pad, s) - 1
        IN  [snap |-> s, vr |-> i, free |-> (s > 0 \/ i < sizes[0])]]

NoLink == [desc |-> 0, main |-> TRUE]

\* What halo c may link to: nothing, or a halo of a later snapshot, as main
\* progenitor or not.  The extra haloes of snapshot 0 have no descendant.
LinkChoices(haloes, c) ==
    IF haloes[c].free
    THEN {NoLink} \cup
         [desc : {d \in DOMAIN haloes : haloes[d].snap > haloes[c].snap},
          main : BOOLEAN]
    ELSE {NoLink}

RECURSIVE LinkSeqs(_, _)
\* All choices of links for haloes 1..c.
LinkSeqs(haloes, c) ==
    IF c = 0 THEN {<< >>}
    ELSE {Append(f, o) : f \in LinkSeqs(haloes, c - 1),
                         o \in LinkChoices(haloes, c)}

\* Tree entry (0-based) of each halo.
EntryOf(links) ==
    LET low == {x \in DOMAIN links : links[x].main}
    IN  [c \in DOMAIN links |->
            IF c \in low
            THEN Cardinality({x \in low : x < c})
            ELSE Cardinality(low)
                 + Cardinality({x \in (DOMAIN links) \ low : x < c})]

\* The arrays of the tree file for a shape.
TreeFile(haloes, links) ==
    LET n == Len(haloes)
        entry == EntryOf(links)
        haloAt == [p \in 0 .. (n - 1) |->
                     CHOOSE c \in 1 .. n : entry[c] = p]
        top == Cardinality({x \in DOMAIN links : links[x].main})
    IN  [vrid   |-> [p \in 0 .. (n - 1) |-> haloes[haloAt[p]].vr + 1],
         isnap  |-> [p \in 0 .. (n - 1) |-> haloes[haloAt[p]].snap],
         descid |-> [p \in 0 .. (n - 1) |->
                       IF links[haloAt[p]].desc = 0 THEN -1
                       ELSE entry[links[haloAt[p]].desc] + 1],
         topid  |-> [p \in 0 .. (n - 1) |-> top]]

\* SOAP/Snapshot<s>: the tree entries of the haloes of each snapshot.
SoapFile(haloes, links) ==
    LET entry == EntryOf(links)
    IN  [s \in Snaps |->
            LET here == {c \in DOMAIN haloes : haloes[c].snap = s}
            IN  [i \in 0 .. (Cardinality(here) - 1) |->
                    entry[CHOOSE c \in here : haloes[c].vr = i]]]

\* The shapes of the model.
Shapes ==
    {sz \in [Snaps -> 0 .. MaxHaloes] :
        Offset(sz, 0, NumSnaps) <= MaxNodes}

\* -------------------------------------------------------------- state

VARIABLES
    mt,              \* the merger tree arrays (input, read only)
    soap,            \* tree entries of the haloes of each snapshot (input)
    phase,           \* "objids", "mergelist" or "done"
    isnap,           \* the snapshot the running program processes next
    fatal,           \* "none", or what ended the run
    max_current_id,  \* generate_objids: highest ObjID assigned so far
    objIDs,          \* in-memory ObjID lists of the running program
    ObjIDsTab,       \* output file: ObjIDs/ObjIDs_<s> with its attributes
    AuxTab,          \* auxiliary file: Snap_<s>_* data sets
    num_objs_total,  \* generate_mergelist: number of ObjIDs of the run
    carrierIDs,      \* generate_mergelist: in-memory carrier lists
    MergeLists,      \* output file: MergeLists/CarrierIDs_<s>
    VRIndices        \* output file: VRIndices/VRIndices_<s>

vars == << mt, soap, phase, isnap, fatal, max_current_id, objIDs, ObjIDsTab,
           AuxTab, num_objs_total, carrierIDs, MergeLists, VRIndices >>

\* A data set that has not been written.
NoObjIDs == [written |-> FALSE, ObjIDs |-> EmptyArr,
             MaxObjID |-> UNSET, FirstNewObjID |-> UNSET]

NoAux == [written |-> FALSE, fading |-> EmptyArr, surviving |-> EmptyArr,
          merging |-> EmptyArr, targetvr |-> EmptyArr,
          targetsnap |-> EmptyArr, numskip |-> EmptyArr]

NoData == [written |-> FALSE, data |-> EmptyArr, MaxObjID |-> UNSET]

\* The state when generate_objids starts: max_current_id is -1, every list
\* entry is None (setup_first_snap) and no output exists.
Init ==
    /\ \E sizes \in Shapes, pad \in {0, PadSize} :
         LET haloes == HaloList(sizes, pad)
         IN  \E links \in LinkSeqs(haloes, Len(haloes)) :
                /\ mt = TreeFile(haloes, links)
                /\ soap = SoapFile(haloes, links)
    /\ phase = "objids"
    /\ isnap = 0
    /\ fatal = "none"
    /\ max_current_id = -1
    /\ objIDs = [s \in Snaps |-> None]
    /\ ObjIDsTab = [s \in Snaps |-> NoObjIDs]
    /\ AuxTab = [s \in Snaps |-> NoAux]
    /\ num_objs_total = 0
    /\ carrierIDs = [s \in Snaps |-> None]
    /\ MergeLists = [s \in Snaps |-> NoData]
    /\ VRIndices = [s \in Snaps |-> NoData]

\* Tree entries that are the descendant of some entry.
DescEntries(m) == {m.descid[p] - 1 : p \in DOMAIN m.descid}

\* Tree files that are structurally inconsistent in one entry p: either p
\* reports the next snapshot (cyclically) instead of its own, for an entry
\* that is nobody's descendant, or p reports the VR ID of another halo of its
\* snapshot.
CorruptTrees(good) ==
    {[good EXCEPT !.isnap[p] = (good.isnap[p] + 1) % NumSnaps] :
        p \in (DOMAIN good.isnap) \ DescEntries(good)}
    \cup
    {[good EXCEPT !.vrid[pq[1]] = good.vrid[pq[2]]] :
        pq \in {x \in (DOMAIN good.vrid) \X (DOMAIN good.vrid) :
                  x[1] # x[2] /\ good.isnap[x[1]] = good.isnap[x[2]]}}

\* The state when generate_objids starts on a structurally inconsistent
\* tree file.
InitCorrupt ==
    /\ \E sizes \in Shapes :
         LET haloes == HaloList(sizes, 0)
         IN  \E links \in LinkSeqs(haloes, Len(haloes)) :
                /\ mt \in CorruptTrees(TreeFile(haloes, links))
                /\ soap = SoapFile(haloes, links)
    /\ phase = "objids"
    /\ isnap = 0
    /\ fatal = "none"
    /\ max_current_id = -1
    /\ objIDs = [s \in Snaps |-> None]
    /\ ObjIDsTab = [s \in Snaps |-> NoObjIDs]
    /\ AuxTab = [s \in Snaps |-> NoAux]
    /\ num_objs_total = 0
    /\ carrierIDs = [s \in Snaps |-> None]
    /\ MergeLists = [s \in Snaps |-> NoData]
    /\ VRIndices = [s \in Snaps |-> NoData]

Running == fatal = "none"

\* ------------------------------------------- generate_objids.py
\* process_snapshot(isnap, objIDs) of generate_objids.py

\* AssignNew with the halo's index in place of its rank among the new haloes.
AssignNewByIndex(ids, first_new_id) ==
    [i \in DOMAIN ids |-> IF ids[i] < 0 THEN first_new_id + i ELSE ids[i]]

\* Hand out new ObjIDs, from first_new_id on, to the haloes that have none,
\* in the order of their index.
AssignNew(ids, first_new_id) ==
    [i \in DOMAIN ids |->
        IF ids[i] < 0
        THEN first_new_id + Cardinality({j \in DOMAIN ids : j < i /\ ids[j] < 0})
        ELSE ids[i]]

\* The entries picked for snapshot s do not all report snapshot s.
SnapMismatch(s) == \E i \in DOMAIN soap[s] : mt.isnap[soap[s][i]] # s

\* The entries picked for snapshot s do not report the VR IDs 1..num_haloes
\* in order.  The code prints a message and goes on.
VrMismatch(s) == \E i \in DOMAIN soap[s] : mt.vrid[soap[s][i]] # i + 1

\* Index of halo i's descendant in the merger tree, -1 for none.
desc_mtinds(s, i) ==
    IF mt.descid[soap[s][i]] - 1 < 0 THEN -1 ELSE mt.descid[soap[s][i]] - 1

ind_no_desc(s) == {i \in DOMAIN soap[s] : mt.descid[soap[s][i]] - 1 < 0}

\* VR index of halo i's descendant, -1 for none.
desc_vrinds(s, i) ==
    IF i \in ind_no_desc(s) THEN -1
    ELSE Idx(mt.vrid, desc_mtinds(s, i)) - 1

\* Snapshot of halo i's descendant, -1 for none.
desc_snap(s, i) ==
    IF i \in ind_no_desc(s) THEN -1
    ELSE Idx(mt.isnap, desc_mtinds(s, i))

\* Haloes on the main branch of their descendant.
ind_is_main_prog(s) ==
    {i \in DOMAIN soap[s] :
        /\ soap[s][i] <= Idx(mt.topid, desc_mtinds(s, i)) - 1
        /\ desc_mtinds(s, i) >= 0}

\* Haloes with a descendant of which they are not the main progenitor.
ind_is_merging(s) ==
    {i \in DOMAIN soap[s] :
        /\ soap[s][i] > Idx(mt.topid, desc_mtinds(s, i)) - 1
        /\ desc_mtinds(s, i) >= 0}

\* The descendant snapshots the loop visits (the placeholder -1 is skipped).
unique_desc_snaps(s) ==
    {t \in {desc_snap(s, i) : i \in DOMAIN soap[s]} : t >= 0}

\* Main progenitors of snapshot s whose descendant is in snapshot t.
ind_to_dsnap(s, t) == {i \in ind_is_main_prog(s) : desc_snap(s, i) = t}

\* Two main progenitors of snapshot s have the same descendant in t.
DuplicateTargets(s, t) ==
    Cardinality({desc_vrinds(s, i) : i \in ind_to_dsnap(s, t)})
        # Cardinality(ind_to_dsnap(s, t))

\* objIDs[idsnap][desc_vrinds[ind_to_dsnap]] = objIDs[isnap][ind_to_dsnap]
CarryForward(s, t, cur, target) ==
    LET from == ind_to_dsnap(s, t)
    IN  [j \in DOMAIN target |->
            IF \E i \in from : desc_vrinds(s, i) = j
            THEN cur[CHOOSE i \in from : desc_vrinds(s, i) = j]
            ELSE target[j]]

\* The ObjID list of snapshot t, set up if it was None.
StartList(list, t) ==
    IF list[t].none THEN Unset(Size(soap[t])) ELSE list[t].v

\* The loop over the descendant snapshots, in increasing order.  It stops at
\* the first snapshot with duplicate targets, after setting up that list.
UpdateObjIDs(s, list) ==
    LET dups == {t \in unique_desc_snaps(s) : DuplicateTargets(s, t)}
        stop == IF dups = {} THEN NumSnaps ELSE SetMin(dups)
    IN  [t \in Snaps |->
            IF t \in unique_desc_snaps(s) /\ t < stop
            THEN Some(CarryForward(s, t, list[s].v, StartList(list, t)))
            ELSE IF t \in unique_desc_snaps(s) /\ t = stop
            THEN Some(StartList(list, t))
            ELSE list[t]]

\* The auxiliary data sets of snapshot s.
AuxData(s) ==
    LET merging == Ascending(ind_is_merging(s))
    IN  [written    |-> TRUE,
         fading     |-> Ascending(ind_no_desc(s)),
         surviving  |-> Ascending(ind_is_main_prog(s)),
         merging    |-> merging,
         targetvr   |-> [k \in DOMAIN merging |-> desc_vrinds(s, merging[k])],
         targetsnap |-> [k \in DOMAIN merging |-> desc_snap(s, merging[k])],
         numskip    |-> [i \in DOMAIN soap[s] |-> desc_snap(s, i) - s]]

\* One call of process_snapshot by the loop of main().
ObjIDsProcessSnapshot ==
    /\ phase = "objids"
    /\ Running
    /\ isnap < NumSnaps
    /\ LET s == isnap
           num_haloes == Size(soap[s])
           old == StartList(objIDs, s)
           first_new_id == max_current_id + 1
           new_max == max_current_id
                        + Cardinality({i \in DOMAIN old : old[i] < 0})
           ids == AssignNew(old, first_new_id)
           list == [objIDs EXCEPT ![s] = Some(ids)]
           dup == \E t \in unique_desc_snaps(s) : DuplicateTargets(s, t)
       IN  /\ max_current_id' = new_max
           /\ IF num_haloes > 0 /\ \E i \in DOMAIN ids : ids[i] < 0
              THEN /\ fatal' = "InvalidObjIDs"
                   /\ objIDs' = list
                   /\ UNCHANGED << isnap, ObjIDsTab, AuxTab >>
              ELSE /\ ObjIDsTab' = [ObjIDsTab EXCEPT ![s] =
                          [written |-> TRUE, ObjIDs |-> ids,
                           MaxObjID |-> new_max,
                           FirstNewObjID |-> first_new_id]]
                   /\ IF num_haloes = 0
                      THEN /\ objIDs' = list
                           /\ isnap' = isnap + 1
                           /\ UNCHANGED << fatal, AuxTab >>
                      ELSE IF SnapMismatch(s)
                      THEN /\ fatal' = "SnapMismatch"
                           /\ objIDs' = list
                           /\ UNCHANGED << isnap, AuxTab >>
                      ELSE IF dup
                      THEN /\ fatal' = "DuplicateTarget"
                           /\ objIDs' = UpdateObjIDs(s, list)
                           /\ UNCHANGED << isnap, AuxTab >>
                      ELSE /\ objIDs' = [UpdateObjIDs(s, list) EXCEPT ![s] = None]
                           /\ AuxTab' = [AuxTab EXCEPT ![s] = AuxData(s)]
                           /\ isnap' = isnap + 1
                           /\ UNCHANGED fatal
    /\ UNCHANGED << mt, soap, phase, num_objs_total, carrierIDs, MergeLists,
                    VRIndices >>

\* ------------------------------------------- generate_mergelist.py

\* main() of generate_mergelist.py up to its loop: setup_first_snap reads
\* the number of ObjIDs from the last snapshot's table.  The program runs
\* after generate_objids.py has processed every snapshot.
MergeListStart ==
    /\ phase = "objids"
    /\ Running
    /\ isnap = NumSnaps
    /\ phase' = "mergelist"
    /\ isnap' = 0
    /\ objIDs' = [s \in Snaps |-> None]
    /\ carrierIDs' = [s \in Snaps |-> None]
    /\ num_objs_total' = ObjIDsTab[NumSnaps - 1].MaxObjID + 1
    /\ UNCHANGED << mt, soap, fatal, max_current_id, ObjIDsTab, AuxTab,
                    MergeLists, VRIndices >>

\* NewCarrierList numbering the new ObjIDs from 0 instead of FirstNewObjID.
NewCarrierListFromZero(t) ==
    [id \in 0 .. ObjIDsTab[t].MaxObjID |->
        IF id >= ObjIDsTab[t].FirstNewObjID
        THEN id - ObjIDsTab[t].FirstNewObjID ELSE UNSET]

\* setup_carrier_ids: a new list has every ObjID that is new in snapshot t
\* as its own carrier and every older one unset.
NewCarrierList(t) ==
    [id \in 0 .. ObjIDsTab[t].MaxObjID |->
        IF id >= ObjIDsTab[t].FirstNewObjID THEN id ELSE UNSET]

\* The loop that sets up the carrier lists of snapshots s..last.
setup_carrier_ids(list, s, last) ==
    [t \in Snaps |->
        IF s <= t /\ t <= last /\ list[t].none
        THEN Some(NewCarrierList(t))
        ELSE list[t]]

\* load_objids for snapshots s..last.
load_objids(list, s, last) ==
    [t \in Snaps |->
        IF s <= t /\ t <= last /\ list[t].none
        THEN Some(ObjIDsTab[t].ObjIDs)
        ELSE list[t]]

\* write_carrier_ids: the list padded with -1 to num_objs_total entries.
CarrierDataSet(carr) ==
    [written  |-> TRUE,
     data     |-> [id \in 0 .. (num_objs_total - 1) |->
                     IF id < Size(carr) THEN carr[id] ELSE UNSET],
     MaxObjID |-> Size(carr) - 1]

\* Unresolved with the safety check taken out.
UnresolvedUnchecked(carr) == FALSE

\* np.count_nonzero(carrierIDs[isnap] == -1) > 0
Unresolved(carr) == \E x \in DOMAIN carr : carr[x] = UNSET

\* list[t][ind] = vals[ind]
Assign(list, t, ind, vals) ==
    [list EXCEPT ![t] =
        Some([x \in DOMAIN list[t].v |->
                 IF x \in ind THEN vals[x] ELSE list[t].v[x]])]

\* ind_faded testing for the unset placeholder instead of FADED.
ind_faded_unset(carr) == {x \in DOMAIN carr : carr[x] = UNSET}

\* ObjIDs already faded in this snapshot.
ind_faded(carr) == {x \in DOMAIN carr : carr[x] = FADED}

\* obj_status after marking the ObjIDs of the haloes that fade now.
StatusFading(s, carr) ==
    [id \in DOMAIN carr |->
        IF \E k \in DOMAIN AuxTab[s].fading :
              ObjIDsTab[s].ObjIDs[AuxTab[s].fading[k]] = id
        THEN FADED ELSE UNSET]

\* cid_fading looking up the status of the ObjID itself, not of its carrier.
cid_fading_own(s, carr) ==
    LET obj_status == StatusFading(s, carr)
    IN  {x \in DOMAIN carr : obj_status[x] = FADED}

\* ObjIDs whose carrier fades now.
cid_fading(s, carr) ==
    LET obj_status == StatusFading(s, carr)
    IN  {x \in DOMAIN carr : Idx(obj_status, carr[x]) = FADED}

\* Main progenitors whose descendant is in the next snapshot.
ind_simple(s) ==
    {AuxTab[s].surviving[k] : k \in
        {k \in DOMAIN AuxTab[s].surviving :
            AuxTab[s].numskip[AuxTab[s].surviving[k]] = 1}}

\* obj_status after marking the ObjIDs of the simply surviving haloes too.
StatusSimple(s, carr) ==
    LET obj_status == StatusFading(s, carr)
        simple == ind_simple(s)
    IN  [id \in DOMAIN carr |->
            IF \E i \in simple : ObjIDsTab[s].ObjIDs[i] = id
            THEN SIMPLE ELSE obj_status[id]]

\* cid_simple without the test that the carrier is an ObjID.
cid_simple_unguarded(s, carr) ==
    LET obj_status == StatusSimple(s, carr)
    IN  {x \in DOMAIN carr : Idx(obj_status, carr[x]) = SIMPLE}

\* ObjIDs whose carrier simply survives.
cid_simple(s, carr) ==
    LET obj_status == StatusSimple(s, carr)
    IN  {x \in DOMAIN carr :
            Idx(obj_status, carr[x]) = SIMPLE /\ carr[x] >= 0}

\* Haloes whose descendant is iskip snapshots on.
ind_iskip(s, iskip) ==
    {i \in DOMAIN AuxTab[s].numskip : AuxTab[s].numskip[i] = iskip}

\* CopyForward writing the descendant's snapshot only.
CopyToLast(list, from, to, ind, carr) ==
    IF from > to THEN list ELSE Assign(list, to, ind, carr)

RECURSIVE CopyForward(_, _, _, _, _)
\* for itsnap in range(from, to + 1): list[itsnap][ind] = carr[ind]
CopyForward(list, from, to, ind, carr) ==
    IF from > to THEN list
    ELSE CopyForward(Assign(list, from, ind, carr), from + 1, to, ind, carr)

RECURSIVE SkipLoop(_, _, _, _, _, _)
\* The loop over the skip counts iskip..last.  It ends the run (set_trace)
\* when an ObjID to be marked with iskip is marked so already.
SkipLoop(s, carr, iskip, last, status, list) ==
    IF iskip > last THEN [clash |-> FALSE, list |-> list, wrote |-> {}]
    ELSE IF ind_iskip(s, iskip) = {}
    THEN SkipLoop(s, carr, iskip + 1, last, status, list)
    ELSE IF \E i \in ind_iskip(s, iskip) :
                status[ObjIDsTab[s].ObjIDs[i]] = iskip
    THEN [clash |-> TRUE, list |-> list, wrote |-> {}]
    ELSE LET marked ==
                [id \in DOMAIN status |->
                    IF \E i \in ind_iskip(s, iskip) :
                          ObjIDsTab[s].ObjIDs[i] = id
                    THEN iskip ELSE status[id]]
             ind_carried ==
                {x \in DOMAIN carr :
                    Idx(marked, carr[x]) = iskip /\ carr[x] >= 0}
             rest ==
                SkipLoop(s, carr, iskip + 1, last, marked,
                         CopyForward(list, s + 1, s + iskip, ind_carried, carr))
         IN  [rest EXCEPT !.wrote =
                 @ \cup (((s + 1) .. (s + iskip)) \X ind_carried)]

\* Entries of the merging list whose target is in snapshot t.
subind_tsnap(s, t) ==
    {k \in DOMAIN AuxTab[s].targetsnap : AuxTab[s].targetsnap[k] = t}

\* StatusMerging with the VR index of the target in place of its ObjID.
StatusMergingVR(s, t, carr) ==
    [id \in DOMAIN carr |->
        IF \E k \in subind_tsnap(s, t) :
              ObjIDsTab[s].ObjIDs[AuxTab[s].merging[k]] = id
        THEN AuxTab[s].targetvr[
                 CHOOSE k \in subind_tsnap(s, t) :
                    ObjIDsTab[s].ObjIDs[AuxTab[s].merging[k]] = id]
        ELSE UNSET]

\* StatusMerging without the reset of obj_status: the marks of the fading
\* and the simply surviving haloes are still there.
StatusMergingNoReset(s, t, carr) ==
    [id \in DOMAIN carr |->
        IF \E k \in subind_tsnap(s, t) :
              ObjIDsTab[s].ObjIDs[AuxTab[s].merging[k]] = id
        THEN ObjIDsTab[t].ObjIDs[AuxTab[s].targetvr[
                 CHOOSE k \in subind_tsnap(s, t) :
                    ObjIDsTab[s].ObjIDs[AuxTab[s].merging[k]] = id]]
        ELSE StatusSimple(s, carr)[id]]

\* obj_status, reset, with the ObjID of the target for each ObjID merging
\* into snapshot t.
StatusMerging(s, t, carr) ==
    [id \in DOMAIN carr |->
        IF \E k \in subind_tsnap(s, t) :
              ObjIDsTab[s].ObjIDs[AuxTab[s].merging[k]] = id
        THEN ObjIDsTab[t].ObjIDs[AuxTab[s].targetvr[
                 CHOOSE k \in subind_tsnap(s, t) :
                    ObjIDsTab[s].ObjIDs[AuxTab[s].merging[k]] = id]]
        ELSE UNSET]

\* ind_carried_merge looking up the status of the ObjID itself, not of its
\* carrier: only the merging ObjIDs, without the ObjIDs they carry.
ind_carried_merge_own(s, t, carr) ==
    LET obj_status == StatusMerging(s, t, carr)
    IN  {x \in DOMAIN carr : obj_status[x] >= 0 /\ carr[x] >= 0}

\* ind_carried of the pass for target snapshot t: the ObjIDs whose carrier
\* merges into t.
ind_carried_merge(s, t, carr) ==
    LET obj_status == StatusMerging(s, t, carr)
    IN  {x \in DOMAIN carr :
            Idx(obj_status, carr[x]) >= 0 /\ carr[x] >= 0}

\* The loop over the target snapshots s+1..last of the merging haloes.  Each
\* pass reads carrierIDs[s] and writes the list of its own snapshot only.
MergeLoop(s, carr, last, list) ==
    [t \in Snaps |->
        IF s + 1 <= t /\ t <= last /\ subind_tsnap(s, t) # {}
        THEN LET obj_status == StatusMerging(s, t, carr)
                 ind_carried == ind_carried_merge(s, t, carr)
             IN  Some([x \in DOMAIN list[t].v |->
                         IF x \in ind_carried
                         THEN obj_status[carr[x]]
                         ELSE list[t].v[x]])
        ELSE list[t]]

\* The (snapshot, slot) pairs each rule of the transition out of snapshot s
\* assigns, for the carrier list carr of s.
WritesHold(s, carr) == {s + 1} \X ind_faded(carr)

WritesFading(s, carr) == {s + 1} \X cid_fading(s, carr)

WritesSimple(s, carr) == {s + 1} \X cid_simple(s, carr)

WritesSkip(s, carr) ==
    SkipLoop(s, carr, FirstSkip, SetMax(Range(AuxTab[s].numskip)),
             StatusSimple(s, carr), [t \in Snaps |-> Some(carr)]).wrote

WritesMerge(s, carr) ==
    UNION {{t} \X ind_carried_merge(s, t, carr) :
             t \in {u \in Snaps : u > s /\ subind_tsnap(s, u) # {}}}

\* The reverse ObjID list of snapshot s.
rev_list(s) ==
    [written  |-> TRUE,
     data     |-> [id \in 0 .. (num_objs_total - 1) |->
                     IF \E i \in DOMAIN ObjIDsTab[s].ObjIDs :
                           ObjIDsTab[s].ObjIDs[i] = id
                     THEN SetMax({i \in DOMAIN ObjIDsTab[s].ObjIDs :
                                     ObjIDsTab[s].ObjIDs[i] = id})
                     ELSE UNSET],
     MaxObjID |-> SetMax(Range(ObjIDsTab[s].ObjIDs))]

\* One call of process_snapshot by the loop of main().
MergeListProcessSnapshot ==
    /\ phase = "mergelist"
    /\ Running
    /\ isnap < NumSnaps
    /\ LET s == isnap
           num_haloes == Size(ObjIDsTab[s].ObjIDs)
           max_n_skip == SetMax(Range(AuxTab[s].numskip))
           max_target_snap == s + max_n_skip
           ready == setup_carrier_ids(carrierIDs, s, max_target_snap)
           loaded == load_objids(load_objids(objIDs, s, s), s, max_target_snap)
           carr == ready[s].v
           held == Assign(ready, s + 1, ind_faded(carr),
                          [x \in DOMAIN carr |-> FADED])
           faded == Assign(held, s + 1, cid_fading(s, carr),
                           [x \in DOMAIN carr |-> FADED])
           simple == Assign(faded, s + 1, cid_simple(s, carr), carr)
           skipped == SkipLoop(s, carr, FirstSkip, max_n_skip,
                               StatusSimple(s, carr), simple)
           last_target == IF Size(AuxTab[s].targetsnap) > 0
                          THEN SetMax(Range(AuxTab[s].targetsnap)) ELSE s
           merged == MergeLoop(s, carr, last_target, skipped.list)
       IN  IF num_haloes = 0
           THEN /\ objIDs' = load_objids(objIDs, s, s)
                /\ isnap' = isnap + 1
                /\ UNCHANGED << fatal, carrierIDs, MergeLists, VRIndices >>
           ELSE IF ready[s].none
           THEN /\ fatal' = "TypeError"
                /\ objIDs' = loaded
                /\ carrierIDs' = ready
                /\ UNCHANGED << isnap, MergeLists, VRIndices >>
           ELSE IF Unresolved(carr)
           THEN /\ fatal' = "UnresolvedCarrier"
                /\ objIDs' = loaded
                /\ carrierIDs' = ready
                /\ UNCHANGED << isnap, MergeLists, VRIndices >>
           ELSE /\ MergeLists' = [MergeLists EXCEPT ![s] = CarrierDataSet(carr)]
                /\ IF s = NumSnaps - 1
                   THEN /\ carrierIDs' = ready
                        /\ objIDs' = loaded
                        /\ isnap' = isnap + 1
                        /\ UNCHANGED << fatal, VRIndices >>
                   ELSE IF ready[s + 1].none
                   THEN /\ fatal' = "TypeError"
                        /\ carrierIDs' = ready
                        /\ objIDs' = loaded
                        /\ UNCHANGED << isnap, VRIndices >>
                   ELSE IF \E x \in DOMAIN carr : ~IndexOK(Size(carr), carr[x])
                   THEN /\ fatal' = "IndexError"
                        /\ carrierIDs' = held
                        /\ objIDs' = loaded
                        /\ UNCHANGED << isnap, VRIndices >>
                   ELSE IF skipped.clash
                   THEN /\ fatal' = "SkipStatusClash"
                        /\ carrierIDs' = skipped.list
                        /\ objIDs' = loaded
                        /\ UNCHANGED << isnap, VRIndices >>
                   ELSE /\ carrierIDs' = [merged EXCEPT ![s] = None]
                        /\ objIDs' = [loaded EXCEPT ![s] = None]
                        /\ VRIndices' = [VRIndices EXCEPT ![s] = rev_list(s)]
                        /\ isnap' = isnap + 1
                        /\ UNCHANGED fatal
    /\ UNCHANGED << mt, soap, phase, max_current_id, ObjIDsTab, AuxTab,
                    num_objs_total >>

Next ==
    \/ ObjIDsProcessSnapshot
    \/ MergeListStart
    \/ MergeListProcessSnapshot

Spec == Init /\ [][Next]_vars

\* The runs on structurally inconsistent tree files.
SpecCorrupt == InitCorrupt /\ [][Next]_vars

\* ------------------------------------------------------------- claims

\* Both programs have processed every snapshot and neither has ended early.
Done == phase = "mergelist" /\ isnap = NumSnaps /\ fatal = "none"

\* The carrier list of snapshot s has been written to the output file.
HasCarrier(s) == MergeLists[s].written

\* CarrierIDs[s] as written to the output file.
Carrier(s) == MergeLists[s].data

\* The ObjID written for halo i of snapshot s.
ObjID(s, i) == ObjIDsTab[s].ObjIDs[i]

\* generate_mergelist has finished snapshot s and is still running.
Propagated(s) == phase = "mergelist" /\ fatal = "none" /\ isnap > s

\* The carrier list of snapshot t is held in memory by a run that has
\* finished snapshot s.
Held(s, t) == Propagated(s) /\ t \in Snaps /\ ~carrierIDs[t].none

\* ObjIDs newly assigned in snapshot s.
NewIDs(s) == ObjIDsTab[s].FirstNewObjID .. ObjIDsTab[s].MaxObjID

\* ObjID x is carried by ObjID a in snapshot s (a itself included).
CarriedBy(s, a) == {x \in DOMAIN Carrier(s) : Carrier(s)[x] = a \/ x = a}

C2_MergeCorrect ==
    \A s \in Snaps : HasCarrier(s) =>
        \A i \in ind_is_merging(s) :
            LET t == desc_snap(s, i)
                target == ObjID(t, desc_vrinds(s, i))
            IN  \A j \in CarriedBy(s, ObjID(s, i)) :
                    /\ HasCarrier(t) => Carrier(t)[j] = target
                    /\ Held(s, t) => carrierIDs[t].v[j] = target

\* A merging halo that carries another ObjID, with the target's list written.
C2_Witness ==
    \E s \in Snaps : HasCarrier(s) /\
        \E i \in ind_is_merging(s) :
            /\ HasCarrier(desc_snap(s, i))
            /\ \E j \in CarriedBy(s, ObjID(s, i)) :
                  /\ j # ObjID(s, i)
                  /\ Carrier(desc_snap(s, i))[j]
                        = ObjID(desc_snap(s, i), desc_vrinds(s, i))

\* C3: passenger propagation on fading.  When halo i of snapshot s has no
\* descendant, its ObjID and every ObjID carried by it in s have carrier
\* FADED in s+1.
C3_FadingPassengers ==
    \A s \in Snaps : HasCarrier(s) =>
        \A i \in ind_no_desc(s) :
            \A j \in CarriedBy(s, ObjID(s, i)) :
                /\ (s + 1 \in Snaps /\ HasCarrier(s + 1)) =>
                       Carrier(s + 1)[j] = FADED
                /\ Held(s, s + 1) => carrierIDs[s + 1].v[j] = FADED

\* A fading halo that carries another ObjID, with the next list written.
C3_Witness ==
    \E s \in Snaps : s + 1 \in Snaps /\ HasCarrier(s) /\ HasCarrier(s + 1) /\
        \E i \in ind_no_desc(s) :
            \E j \in CarriedBy(s, ObjID(s, i)) :
                j # ObjID(s, i) /\ Carrier(s + 1)[j] = FADED

\* The carrier a halo with a descendant k > 1 snapshots on resolves to in the
\* descendant's snapshot: unchanged for a main progenitor, the target's
\* ObjID for a merging halo.
ResolvedCarrier(s, i, x) ==
    IF i \in ind_is_main_prog(s) THEN Carrier(s)[x]
    ELSE ObjID(desc_snap(s, i), desc_vrinds(s, i))

\* C4: skip correctness.  For a halo of snapshot s whose descendant lies
\* k > 1 snapshots on, the carrier of its ObjID and of every ObjID it carries
\* is the one of s in every snapshot s+1..s+k-1, and neither those slots nor
\* the slot of s+k change while the snapshots between are processed.
C4_SkipHolds ==
    \A s \in Snaps : HasCarrier(s) =>
        \A i \in DOMAIN soap[s] : desc_snap(s, i) - s > 1 =>
            \A x \in CarriedBy(s, ObjID(s, i)) :
                /\ \A u \in (s + 1) .. (desc_snap(s, i) - 1) :
                      /\ HasCarrier(u) => Carrier(u)[x] = Carrier(s)[x]
                      /\ Held(s, u) => carrierIDs[u].v[x] = Carrier(s)[x]
                /\ HasCarrier(desc_snap(s, i)) =>
                      Carrier(desc_snap(s, i))[x] = ResolvedCarrier(s, i, x)
                /\ Held(s, desc_snap(s, i)) =>
                      carrierIDs[desc_snap(s, i)].v[x]
                         = ResolvedCarrier(s, i, x)

\* A skipping halo that carries another ObjID, with the lists of a snapshot
\* between and of the descendant's snapshot written.
C4_Witness ==
    \E s \in Snaps : HasCarrier(s) /\
        \E i \in DOMAIN soap[s] :
            /\ desc_snap(s, i) - s > 1
            /\ HasCarrier(s + 1)
            /\ HasCarrier(desc_snap(s, i))
            /\ \E x \in CarriedBy(s, ObjID(s, i)) : x # ObjID(s, i)

\* C5: identifier persistence along the main branch.  After a run without a
\* fatal condition the descendant of every main progenitor has the ObjID of
\* that progenitor.
C5_MainBranchKeepsObjID ==
    Done =>
        \A s \in Snaps : \A i \in ind_is_main_prog(s) :
            ObjID(desc_snap(s, i), desc_vrinds(s, i)) = ObjID(s, i)

\* C6: allocation is unique and dense.  The ObjIDs new in snapshot s are
\* exactly FirstNewObjID..MaxObjID, FirstNewObjID follows the previous
\* MaxObjID, they are handed out in index order, every other ObjID of the
\* table is older, no two haloes of a table share an ObjID, and the counter
\* is the MaxObjID written last.
C6_UniqueDense ==
    \A s \in Snaps : ObjIDsTab[s].written =>
        LET ids == ObjIDsTab[s].ObjIDs
            before == IF s = 0 THEN -1 ELSE ObjIDsTab[s - 1].MaxObjID
        IN  /\ ObjIDsTab[s].FirstNewObjID = before + 1
            /\ ObjIDsTab[s].MaxObjID >= before
            /\ max_current_id >= ObjIDsTab[s].MaxObjID
            /\ (s = NumSnaps - 1 \/ ~ObjIDsTab[s + 1].written) =>
                   max_current_id = ObjIDsTab[s].MaxObjID
            /\ \A id \in NewIDs(s) : \E i \in DOMAIN ids : ids[i] = id
            /\ \A i \in DOMAIN ids : 0 <= ids[i] /\ ids[i] <= ObjIDsTab[s].MaxObjID
            /\ \A i \in DOMAIN ids, j \in DOMAIN ids :
                  /\ i # j => ids[i] # ids[j]
                  /\ (i < j /\ ids[i] \in NewIDs(s) /\ ids[j] \in NewIDs(s))
                        => ids[i] < ids[j]

\* A table with an inherited ObjID at a higher index than a new one, and a
\* table with two new ObjIDs.
C6_Witness ==
    /\ \E s \in Snaps : ObjIDsTab[s].written /\
          \E i \in DOMAIN ObjIDsTab[s].ObjIDs, j \in DOMAIN ObjIDsTab[s].ObjIDs :
              /\ i < j
              /\ ObjID(s, j) \in NewIDs(s)
              /\ ObjID(s, i) \notin NewIDs(s)
    /\ \E s \in Snaps : ObjIDsTab[s].written /\ s > 0 /\
          ObjIDsTab[s].MaxObjID > ObjIDsTab[s].FirstNewObjID

\* C7: new ObjIDs are self-carried.  In the written carrier list of
\* snapshot s every ObjID that is new in s is its own carrier.
C7_NewSelfCarried ==
    \A s \in Snaps : HasCarrier(s) =>
        \A id \in NewIDs(s) : Carrier(s)[id] = id

\* A written list with a new ObjID that was set up two snapshots earlier, by
\* a halo of snapshot s-2 whose descendant is in s or later.
C7_Witness ==
    \E s \in Snaps : s >= 2 /\ HasCarrier(s) /\ HasCarrier(s - 1) /\
        /\ HasCarrier(s - 2)
        /\ NewIDs(s) # {}
        /\ \E i \in DOMAIN soap[s - 2] : desc_snap(s - 2, i) >= s

\* The tree of scenario 1: haloes A and B in snapshot 0, A the main
\* progenitor of A' in snapshot 1, B without descendant, A' merging into C
\* in snapshot 2, nothing after.
Scenario1 ==
    /\ Size(soap[0]) = 2 /\ Size(soap[1]) = 1 /\ Size(soap[2]) = 1
    /\ \A s \in Snaps : s > 2 => Size(soap[s]) = 0
    /\ ind_is_main_prog(0) = {0} /\ ind_no_desc(0) = {1}
    /\ desc_snap(0, 0) = 1 /\ desc_vrinds(0, 0) = 0
    /\ ind_is_merging(1) = {0}
    /\ desc_snap(1, 0) = 2 /\ desc_vrinds(1, 0) = 0

\* C8: scenario 1 end to end.  The run on the tree of scenario 1 does not
\* end early, gives A, B and C the ObjIDs 0, 1 and 2, and writes
\* CarrierIDs[1] = {0:0, 1:FADED} and CarrierIDs[2] = {0:2, 1:FADED, 2:2}.
C8_Scenario1 ==
    Scenario1 =>
        /\ fatal = "none"
        /\ (phase = "mergelist" /\ isnap > 2) =>
              /\ ObjID(0, 0) = 0 /\ ObjID(0, 1) = 1 /\ ObjID(2, 0) = 2
              /\ HasCarrier(1) /\ Carrier(1)[0] = 0 /\ Carrier(1)[1] = FADED
              /\ HasCarrier(2)
              /\ Carrier(2)[0] = 2 /\ Carrier(2)[1] = FADED
              /\ Carrier(2)[2] = 2

\* C9: reverse index round trip.  After the run every snapshot with haloes
\* has a reverse list that gives its index for the ObjID of each halo and a
\* negative number for every other ObjID.
C9_ReverseRoundTrip ==
    Done =>
        \A s \in Snaps : Size(ObjIDsTab[s].ObjIDs) > 0 =>
            /\ VRIndices[s].written
            /\ \A i \in DOMAIN ObjIDsTab[s].ObjIDs :
                  VRIndices[s].data[ObjID(s, i)] = i
            /\ \A id \in DOMAIN VRIndices[s].data :
                  (\A i \in DOMAIN ObjIDsTab[s].ObjIDs : ObjID(s, i) # id)
                     => VRIndices[s].data[id] < 0

\* Haloes i1 of snapshot s1 and i2 of snapshot s2 are different main
\* progenitors of the same halo.
SameTarget(s1, i1, s2, i2) ==
    /\ << s1, i1 >> # << s2, i2 >>
    /\ desc_snap(s1, i1) = desc_snap(s2, i2)
    /\ desc_vrinds(s1, i1) = desc_vrinds(s2, i2)

\* C10: DuplicateTarget is fatal.  generate_objids never gets past two
\* different main progenitors of the same halo: by the time it has processed
\* the snapshots of both it has ended with a fatal condition.
C10_DuplicateTargetFatal ==
    fatal = "none" =>
        \A s1 \in Snaps, s2 \in Snaps :
            (phase = "mergelist" \/ (isnap > s1 /\ isnap > s2)) =>
                \A i1 \in ind_is_main_prog(s1), i2 \in ind_is_main_prog(s2) :
                    ~SameTarget(s1, i1, s2, i2)

\* C11: StructuralInconsistency is fatal.  Once generate_objids has taken up
\* a snapshot s with haloes whose tree entries report another snapshot, or
\* whose VR IDs are not 1..N in order, the run has ended at s with a fatal
\* condition, without auxiliary linkage data of s and without an ObjID of s
\* carried forward to a descendant.
C11_StructuralInconsistencyFatal ==
    \A s \in Snaps :
        (/\ ObjIDsTab[s].written
         /\ Size(soap[s]) > 0
         /\ (SnapMismatch(s) \/ VrMismatch(s)))
        => /\ fatal # "none"
           /\ phase = "objids"
           /\ isnap = s
           /\ ~AuxTab[s].written
           /\ \A t \in Snaps : (t > s /\ ~objIDs[t].none) =>
                  \A j \in DOMAIN objIDs[t].v :
                      objIDs[t].v[j] \notin Range(ObjIDsTab[s].ObjIDs)

\* generate_mergelist has just passed snapshot s, which has no haloes, and
\* has not taken up the next snapshot yet.
PassedEmpty(s) ==
    /\ phase = "mergelist"
    /\ isnap = s + 1
    /\ Size(soap[s]) = 0
    /\ fatal = "none"

\* C12: an empty snapshot is not an error.  A snapshot without haloes gets
\* no new ObjID; once the run has passed it, the carriers held for it, FADED
\* ones included, are found in the list of the next snapshot as if they had
\* been carried across; and the run does not halt on an unresolved carrier
\* in the snapshot that follows it.
C12_EmptySnapshotContinues ==
    \A s \in Snaps : Size(soap[s]) = 0 =>
        /\ ObjIDsTab[s].written =>
               ObjIDsTab[s].MaxObjID = ObjIDsTab[s].FirstNewObjID - 1
        /\ (PassedEmpty(s) /\ s + 1 \in Snaps /\ ~carrierIDs[s].none) =>
               /\ ~carrierIDs[s + 1].none
               /\ \A x \in DOMAIN carrierIDs[s].v :
                      carrierIDs[s].v[x] = FADED =>
                          carrierIDs[s + 1].v[x] = FADED
        /\ (phase = "mergelist" /\ isnap = s + 1) =>
               fatal # "UnresolvedCarrier"

\* generate_mergelist is about to process snapshot s, which has haloes, and
\* holds a carrier list for it with a slot that is still unset.
StartsUnresolved(s) ==
    /\ phase = "mergelist"
    /\ Running
    /\ isnap = s
    /\ Size(soap[s]) > 0
    /\ ~carrierIDs[s].none
    /\ Unresolved(carrierIDs[s].v)

\* The step leaves the output files alone and the later carrier lists as
\* they were, or as setup_carrier_ids makes them.
NothingPropagated(s) ==
    /\ UNCHANGED << MergeLists, VRIndices >>
    /\ \A t \in Snaps : t > s =>
          \/ carrierIDs'[t] = carrierIDs[t]
          \/ carrierIDs[t].none /\ carrierIDs'[t] = Some(NewCarrierList(t))

Transitioned(s) == VRIndices[s].written

\* The carrier list of snapshot s the rules were applied to: the list as
\* written, without the padding.
WrittenCarr(s) == [x \in 0 .. MergeLists[s].MaxObjID |-> Carrier(s)[x]]

\* The slots the skip rule and the merging rule may both write: slot t, more
\* than one snapshot on, of an ObjID carried by a halo that merges into t.
SkipThenMerge(s) ==
    UNION {{desc_snap(s, i)} \X
               {x \in DOMAIN WrittenCarr(s) : WrittenCarr(s)[x] = ObjID(s, i)} :
             i \in {j \in ind_is_merging(s) : desc_snap(s, j) - s > 1}}

\* C14 as claimed: in the transition out of a snapshot the sets of
\* (snapshot, slot) pairs written by the five rules (sentinel hold, newly
\* fading, simple survival, skip, merging) are pairwise disjoint.
C14_RulesDisjoint ==
    \A s \in Snaps : Transitioned(s) =>
        LET carr == WrittenCarr(s)
            W == << WritesHold(s, carr), WritesFading(s, carr),
                    WritesSimple(s, carr), WritesSkip(s, carr),
                    WritesMerge(s, carr) >>
        IN  \A a \in 1 .. 5, b \in 1 .. 5 : a < b => W[a] \cap W[b] = {}

\* C14 as amended: the write sets of the five rules are pairwise disjoint
\* but for two overlaps.  The skip rule and the merging rule both write the
\* target snapshot's slot of every ObjID carried by a halo that merges with
\* skip count k > 1, and nothing else in common; the merging rule writes
\* last.  The sentinel hold and the newly fading rule may both write a slot
\* of s+1; both write FADED.
C14_RulesDisjointButSkipMerge ==
    \A s \in Snaps : Transitioned(s) =>
        LET carr == WrittenCarr(s)
            W == << WritesHold(s, carr), WritesFading(s, carr),
                    WritesSimple(s, carr), WritesSkip(s, carr),
                    WritesMerge(s, carr) >>
        IN  /\ \A a \in 1 .. 5, b \in 1 .. 5 :
                  (a < b /\ << a, b >> \notin {<< 1, 2 >>, << 4, 5 >>})
                     => W[a] \cap W[b] = {}
            /\ W[4] \cap W[5] = SkipThenMerge(s)

\* The transition out of a snapshot with a halo that merges with skip count
\* above 1 and carries another ObjID has been made.
C14_Witness ==
    \E s \in Snaps : Transitioned(s) /\
        \E i \in ind_is_merging(s) :
            /\ desc_snap(s, i) - s > 1
            /\ \E x \in DOMAIN WrittenCarr(s) :
                  /\ x # ObjID(s, i)
                  /\ << desc_snap(s, i), x >> \in
                        WritesSkip(s, WrittenCarr(s))
                           \cap WritesMerge(s, WrittenCarr(s))

\* C15: the carrier lists are materialised before they are used.  For a
\* snapshot s with haloes, before the final one, the run does not end in the
\* step that processes s by using a carrier list of s or s+1 that is still
\* None (a TypeError), whatever the mix of fading, surviving, skipping and
\* merging haloes, all of them fading included.
C15_CarrierMapsMaterialised ==
    \A s \in Snaps :
        (/\ phase = "mergelist"
         /\ isnap = s
         /\ s < NumSnaps - 1
         /\ Size(soap[s]) > 0)
        => fatal # "TypeError"

\* No two different main progenitors, of any snapshots, have the same
\* descendant.
NoSharedTargets ==
    \A s1 \in Snaps, s2 \in Snaps :
        \A i1 \in ind_is_main_prog(s1), i2 \in ind_is_main_prog(s2) :
            ~SameTarget(s1, i1, s2, i2)

\* C16: an ObjID that has a halo in snapshot s is independent there.  On a
\* tree without shared targets, the written carrier list of every snapshot
\* has the ObjID of each halo of that snapshot as its own carrier.
C16_NodeOwnerIndependent ==
    \A s \in Snaps : HasCarrier(s) =>
        \/ \A n \in DOMAIN ObjIDsTab[s].ObjIDs :
              Carrier(s)[ObjID(s, n)] = ObjID(s, n)
        \/ ~NoSharedTargets

\* A written list of a tree without shared targets in which the ObjID of a
\* halo is inherited from an earlier snapshot and its own carrier, while one
\* ObjID is carried by another and one has faded.
C16_Witness ==
    /\ NoSharedTargets
    /\ \E s \in Snaps : HasCarrier(s) /\
          /\ \E n \in DOMAIN ObjIDsTab[s].ObjIDs :
                /\ ObjID(s, n) \notin NewIDs(s)
                /\ Carrier(s)[ObjID(s, n)] = ObjID(s, n)
          /\ \E x \in 0 .. MergeLists[s].MaxObjID :
                Carrier(s)[x] >= 0 /\ Carrier(s)[x] # x
          /\ \E x \in 0 .. MergeLists[s].MaxObjID : Carrier(s)[x] = FADED

\* C17: the carrier map is flat.  In every written carrier list, the carrier
\* of an ObjID, when it is an ObjID, is its own carrier.
C17_CarrierMapFlat ==
    \A s \in Snaps : HasCarrier(s) =>
        \A j \in DOMAIN Carrier(s) : Carrier(s)[j] >= 0 =>
            Carrier(s)[Carrier(s)[j]] = Carrier(s)[j]

\* Successive mergers: ObjID x is carried by y in a written list and both
\* are carried by a third ObjID z in a later written list.
C17_Witness ==
    \E s \in Snaps, s2 \in Snaps : s < s2 /\ HasCarrier(s) /\ HasCarrier(s2) /\
        \E x \in DOMAIN Carrier(s) :
            LET y == Carrier(s)[x]
            IN  /\ y >= 0 /\ y # x
                /\ Carrier(s2)[y] >= 0
                /\ Carrier(s2)[y] # y
                /\ Carrier(s2)[x] = Carrier(s2)[y]

\* C18: FADED is never used as an ObjID.  The run never ends with an index
\* out of range in a lookup of obj_status by carrier, and in a transition
\* that has been made no ObjID whose carrier is FADED was taken as carried by
\* a fading, a simply surviving, a skipping or a merging ObjID.
C18_FadedNeverAnIndex ==
    /\ fatal # "IndexError"
    /\ \A s \in Snaps : Transitioned(s) =>
          LET carr == WrittenCarr(s)
          IN  \A x \in ind_faded(carr) :
                 /\ x \notin cid_fading(s, carr)
                 /\ x \notin cid_simple(s, carr)
                 /\ \A t \in Snaps :
                       /\ << t, x >> \notin WritesSkip(s, carr)
                       /\ << t, x >> \notin WritesMerge(s, carr)

=============================================================================
